---- MODULE Spec2Model ----
(***************************************************************************)
(* Kubernetes registry of go-plugins (registry/kubernetes): the registry   *)
(* operations over the secret store (Register, Deregister, GetService,     *)
(* ListServices), the selector codec (serviceName) and the watcher         *)
(* (newWatcher's forwarding goroutine, handleEvent, Next, Stop).           *)
(*                                                                         *)
(* Strings are sequences of bytes, a byte being a one-symbol string; the   *)
(* symbol "xFF" stands for a byte that is not valid UTF-8 and "uFFFD" for  *)
(* the Unicode replacement rune U+FFFD.                                    *)
(***************************************************************************)
EXTENDS Naturals, Sequences, FiniteSets, TLC

VARIABLES
    store,       \* the secret store: instance id (HOSTNAME) -> Secret or NoSecret
    registered,  \* instance id -> the service its secret was registered for
    lastOp,      \* the last Register/Deregister call and what it returned
    ops,         \* number of Register/Deregister calls made
    wservice,    \* wo.Service of the watch ("" is <<>>)
    selector,    \* the label selector newWatcher handed to WatchSecrets
    upQ,         \* watcher.ResultChan(): notifications not yet received
    upClosed,    \* watcher.ResultChan() is closed
    emitted,     \* number of notifications the event source has emitted
    chanClosed,  \* k.next is closed
    closes,      \* number of close(k.next) executed
    pc,          \* control point of the forwarding goroutine and of each caller
    cur,         \* the event the forwarding goroutine is handling
    results,     \* handleEvent's results not yet sent
    rd,          \* the reader: [pc, afterStop, last]
    fault,       \* the panic that ended the process, or "none"
    stopCalls,   \* number of Stop() calls callers have started
    stopReturned,\* some caller's Stop() has returned
    sent,        \* results whose send on k.next completed, in order
    delivered,   \* results returned by Next(), in order
    handled,     \* the last notification handleEvent decoded, with its results
    size,        \* the connection pool's capacity
    conns,       \* the connection pool: address -> connections retained
    held,        \* connections handed out by getConn and not yet released
    closed,      \* connections the pool has closed
    now,         \* the clock the pool reads
    dialed,      \* number of connections dialed so far
    lastRelease, \* the last release call and what the pool did with it
    san,         \* a name, serviceName of it, and serviceName of that
    lastRead     \* the last GetService/ListServices call and what it returned

vars == <<store, registered, lastOp, ops, wservice, selector, upQ, upClosed, emitted,
          chanClosed, closes, pc, cur, results, rd, fault, stopCalls,
          stopReturned, sent, delivered, handled, size, conns, held, closed,
          now, dialed, lastRelease, san, lastRead>>

regVars == <<store, registered, lastOp, ops>>
chanVars == <<chanClosed, closes, fault, sent, delivered>>
poolVars == <<size, conns, held, closed, now, dialed, lastRelease>>
watchVars == <<wservice, selector, upQ, upClosed, emitted, chanVars, pc, cur,
               results, rd, stopCalls, stopReturned, handled>>

----------------------------------------------------------------------------
(* Bounds of the model *)

MaxEvents == 2     \* notifications the event source emits in one watch session
MaxStops == 2      \* Stop() calls the callers make in one watch session
MaxOps == 2        \* Register/Deregister calls in one run of the registry

----------------------------------------------------------------------------
(* Wire constants *)

svcSelectorPrefix == "micro.mu/selector-"
svcSelectorValue == "service"
labelTypeKey == "micro.mu/type"
labelTypeValueService == "service"
dataServiceKeyPrefix == "micro.mu/service-"

\* the bytes labelRe matches, among the bytes the model uses
labelRe == {"a", "b", "n", "m", "_", ".", "-"}

InvalidByte == "xFF"
ReplacementRune == "uFFFD"
EscapedReplacement == "\\ufffd"

\* prefix + name: a key is the prefix followed by the bytes of the name
Concat(prefix, name) == <<prefix>> \o name

HasPrefix(key, prefix) == Len(key) >= 1 /\ key[1] = prefix

----------------------------------------------------------------------------
(* Selector codec *)

\* (mutant) the first byte of the name is never replaced
serviceName_KeepsFirstByte(name) ==
    [i \in 1..Len(name) |->
        IF i > 1 /\ name[i] \notin labelRe THEN "_" ELSE name[i]]

serviceName(name) ==
    [i \in 1..Len(name) |-> IF name[i] \notin labelRe THEN "_" ELSE name[i]]

secretSelector == {<<<<labelTypeKey>>, labelTypeValueService>>}

----------------------------------------------------------------------------
(* encoding/json on a registry.Service: strings are coerced to valid UTF-8 *)
(* on Marshal (an invalid byte becomes the escape of U+FFFD) and escapes   *)
(* are resolved on Unmarshal.                                              *)

MarshalString(s) ==
    [i \in 1..Len(s) |-> IF s[i] = InvalidByte THEN EscapedReplacement ELSE s[i]]

UnmarshalString(t) ==
    [i \in 1..Len(t) |-> IF t[i] = EscapedReplacement THEN ReplacementRune ELSE t[i]]

JsonMarshal(s) ==
    [doc |-> "service",
     name |-> MarshalString(s.name),
     nodes |-> [i \in 1..Len(s.nodes) |-> MarshalString(s.nodes[i])]]

\* text that is not JSON
Malformed == [doc |-> "malformed"]
\* a nil *string
Null == [doc |-> "nil"]

JsonUnmarshal(text) ==
    IF text.doc = "service"
    THEN [ok |-> TRUE,
          svc |-> [name |-> UnmarshalString(text.name),
                   nodes |-> [i \in 1..Len(text.nodes) |->
                                 UnmarshalString(text.nodes[i])]]]
    ELSE [ok |-> FALSE]

----------------------------------------------------------------------------
(* Inputs: service names, services, process instances *)

\* "a" is a valid label; "b_" is a valid label; "b/" and "bxFF" sanitize to "b_"
Names == {<<"a">>, <<"b", "_">>, <<"b", "/">>, <<"b", InvalidByte>>}

\* s.Nodes, a node standing for its id
NodeLists == {<< >>, <<<<"n">>>>, <<<<"n">>, <<"m">>>>}

Services == [name : Names, nodes : NodeLists]

\* os.Getenv("HOSTNAME") of the calling process
InstanceSeq == <<"pod1", "pod2">>
Instances == {InstanceSeq[i] : i \in 1..Len(InstanceSeq)}

----------------------------------------------------------------------------
(* Secrets and the secret store *)

NoSecret == [present |-> FALSE]

\* the value of key in a map held as a set of <<key, value>> pairs
MapHas(map, key) == \E kv \in map : kv[1] = key
MapGet(map, key) == (CHOOSE kv \in map : kv[1] = key)[2]

\* a secret carries every label of the selector
Matches(secret, sel) == secret.present /\ sel \subseteq secret.labels

\* GET secrets?labelSelector=..., in the order of the instance ids
RECURSIVE ItemsFrom(_, _, _)
ItemsFrom(st, sel, i) ==
    IF i > Len(InstanceSeq) THEN << >>
    ELSE (IF Matches(st[InstanceSeq[i]], sel) THEN <<st[InstanceSeq[i]]>> ELSE << >>)
         \o ItemsFrom(st, sel, i + 1)

ListSecrets(st, sel) == ItemsFrom(st, sel, 1)

\* (mutant) the request creates the secret only where there is none yet
CreateSecret_KeepsExisting(st, name, secret) ==
    IF st[name].present THEN st ELSE [st EXCEPT ![name] = secret]

\* PUT secrets/<name>: the secret stored under name is the one sent
CreateSecret(st, name, secret) == [st EXCEPT ![name] = secret]

\* DELETE secrets/<name>
DeleteSecret(st, name) == [st EXCEPT ![name] = NoSecret]

\* the watch stream's object of a secret, and its decoding in handleEvent
ObjectOf(secret) == [json |-> TRUE, secret |-> secret]
Garbage == [json |-> FALSE]

\* what a watch with selector sel is told when a secret goes from old to new
StoreEvents(old, new, sel) ==
    IF Matches(new, sel)
    THEN <<[Type |-> IF Matches(old, sel) THEN "Modified" ELSE "Added",
            Object |-> ObjectOf(new)]>>
    ELSE IF Matches(old, sel)
    THEN <<[Type |-> "Deleted", Object |-> ObjectOf(old)]>>
    ELSE << >>

----------------------------------------------------------------------------
(* Registry *)

\* (mutant) the payload key is built from the name as given, not sanitized
RegisterSecret_RawKey(podName, s) ==
    [present |-> TRUE,
     name |-> podName,
     hasMeta |-> TRUE,
     labels |-> {<<<<labelTypeKey>>, labelTypeValueService>>,
                 <<Concat(svcSelectorPrefix, serviceName(s.name)), svcSelectorValue>>},
     annotations |-> {},
     data |-> {<<Concat(dataServiceKeyPrefix, s.name), JsonMarshal(s)>>}]

\* the secret Register builds for service s, called by instance podName
RegisterSecret(podName, s) ==
    [present |-> TRUE,
     name |-> podName,
     hasMeta |-> TRUE,
     labels |-> {<<<<labelTypeKey>>, labelTypeValueService>>,
                 <<Concat(svcSelectorPrefix, serviceName(s.name)), svcSelectorValue>>},
     annotations |-> {},
     data |-> {<<Concat(dataServiceKeyPrefix, serviceName(s.name)), JsonMarshal(s)>>}]

\* (mutant) the loop skips a payload that does not decode
RECURSIVE GetServiceLoop_SkipsUndecodable(_, _, _)
GetServiceLoop_SkipsUndecodable(items, key, i) ==
    IF i > Len(items) THEN [err |-> "nil", svcs |-> << >>]
    ELSE IF ~MapHas(items[i].data, key)
    THEN GetServiceLoop_SkipsUndecodable(items, key, i + 1)
    ELSE LET dec == JsonUnmarshal(MapGet(items[i].data, key))
             rest == GetServiceLoop_SkipsUndecodable(items, key, i + 1)
         IN  IF ~dec.ok THEN rest
             ELSE [err |-> "nil", svcs |-> <<dec.svc>> \o rest.svcs]

\* the loop of GetService over secrets.Items, from item i on
RECURSIVE GetServiceLoop(_, _, _)
GetServiceLoop(items, key, i) ==
    IF i > Len(items) THEN [err |-> "nil", svcs |-> << >>]
    ELSE IF ~MapHas(items[i].data, key) THEN GetServiceLoop(items, key, i + 1)
    ELSE LET dec == JsonUnmarshal(MapGet(items[i].data, key))
             rest == GetServiceLoop(items, key, i + 1)
         IN  IF ~dec.ok THEN [err |-> "could not unmarshal service", svcs |-> << >>]
             ELSE IF rest.err # "nil" THEN rest
             ELSE [err |-> "nil", svcs |-> <<dec.svc>> \o rest.svcs]

\* the services decoded from the payload entries of items that carry the
\* service prefix, item by item
RECURSIVE PrefixedServices(_, _)
PrefixedServices(items, i) ==
    IF i > Len(items) THEN << >>
    ELSE LET decs == {JsonUnmarshal(e[2]) :
                         e \in {d \in items[i].data : HasPrefix(d[1], dataServiceKeyPrefix)}}
             oks == {d \in decs : d.ok}
         IN  (IF oks = {} THEN << >> ELSE <<(CHOOSE d \in oks : TRUE).svc>>)
             \o PrefixedServices(items, i + 1)

\* (mutant) GetService lists every secret of the registry and decodes whatever
\* payload entry carries the service prefix
GetService_AnyPrefixed(st, name) ==
    LET items == ListSecrets(st, secretSelector)
    IN  IF Len(items) = 0 THEN [err |-> "ErrNotFound", svcs |-> << >>]
        ELSE [err |-> "nil", svcs |-> PrefixedServices(items, 1)]

\* (mutant) an empty list is not reported as ErrNotFound
GetService_NoNotFound(st, name) ==
    LET svcName == serviceName(name)
        items == ListSecrets(st, {<<Concat(svcSelectorPrefix, svcName), svcSelectorValue>>})
    IN  GetServiceLoop(items, Concat(dataServiceKeyPrefix, svcName), 1)

GetService(st, name) ==
    LET svcName == serviceName(name)
        items == ListSecrets(st, {<<Concat(svcSelectorPrefix, svcName), svcSelectorValue>>})
    IN  IF Len(items) = 0 THEN [err |-> "ErrNotFound", svcs |-> << >>]
        ELSE GetServiceLoop(items, Concat(dataServiceKeyPrefix, svcName), 1)

\* the names ListServices collects into svcs, one secret's annotations at a time
ListServicesNames(items) ==
    {JsonUnmarshal(kv[2]).svc.name :
        kv \in {e \in UNION {items[i].annotations : i \in 1..Len(items)} :
                    HasPrefix(e[1], dataServiceKeyPrefix) /\ JsonUnmarshal(e[2]).ok}}

\* ListServices dereferences secret.Metadata and every prefixed value unchecked
ListServicesDerefsNil(items) ==
    \E i \in 1..Len(items) :
        \/ ~items[i].hasMeta
        \/ \E e \in items[i].annotations :
              HasPrefix(e[1], dataServiceKeyPrefix) /\ e[2] = Null

\* ListServices returns one registry.Service{Name: val} per name collected
ListServices(st) ==
    LET items == ListSecrets(st, secretSelector)
    IN  IF ListServicesDerefsNil(items)
        THEN [err |-> "panic: nil pointer dereference", names |-> {}]
        ELSE [err |-> "nil", names |-> ListServicesNames(items)]

----------------------------------------------------------------------------
(* Watcher: decoding a notification *)

\* every order in which a range over the map can visit its entries
RECURSIVE Orderings(_)
Orderings(S) ==
    IF S = {} THEN {<< >>}
    ELSE UNION {{<<e>> \o o : o \in Orderings(S \ {e})} : e \in S}

\* (mutant) the loop ends at the first value that does not decode
RECURSIVE BuildLoop_EndsAtUndecodable(_, _, _)
BuildLoop_EndsAtUndecodable(seq, action, i) ==
    IF i > Len(seq) THEN << >>
    ELSE LET ak == seq[i][1]
             av == seq[i][2]
         IN  IF ~HasPrefix(ak, dataServiceKeyPrefix)
             THEN BuildLoop_EndsAtUndecodable(seq, action, i + 1)
             ELSE IF av = Null THEN BuildLoop_EndsAtUndecodable(seq, action, i + 1)
             ELSE IF ~JsonUnmarshal(av).ok THEN << >>
             ELSE <<[Action |-> action, Service |-> JsonUnmarshal(av).svc]>>
                  \o BuildLoop_EndsAtUndecodable(seq, action, i + 1)

\* the body of buildSecretResults' loop over the entries visited in order seq
RECURSIVE BuildLoop(_, _, _)
BuildLoop(seq, action, i) ==
    IF i > Len(seq) THEN << >>
    ELSE LET ak == seq[i][1]
             av == seq[i][2]
         IN  IF ~HasPrefix(ak, dataServiceKeyPrefix) THEN BuildLoop(seq, action, i + 1)
             ELSE IF av = Null THEN BuildLoop(seq, action, i + 1)
             ELSE IF ~JsonUnmarshal(av).ok THEN BuildLoop(seq, action, i + 1)
             ELSE <<[Action |-> action, Service |-> JsonUnmarshal(av).svc]>>
                  \o BuildLoop(seq, action, i + 1)

\* (mutant) the loop ranges over the payload entries of the secret
SecretEntries_Data(secret) == secret.data

\* the entries buildSecretResults ranges over
SecretEntries(secret) == secret.annotations

\* the result lists buildSecretResults can return, one per iteration order
buildSecretResults(secret, action) ==
    IF secret.hasMeta
    THEN {BuildLoop(seq, action, 1) : seq \in Orderings(SecretEntries(secret))}
    ELSE {<< >>}

\* (mutant) a Modified notification is decoded into "update" results
handleEventResults_ModifiedAsUpdate(event) ==
    IF ~event.Object.json THEN {<< >>}
    ELSE IF event.Type = "Added" THEN buildSecretResults(event.Object.secret, "create")
    ELSE IF event.Type = "Deleted" THEN buildSecretResults(event.Object.secret, "delete")
    ELSE buildSecretResults(event.Object.secret, "update")

\* the result lists handleEvent can come to send for an event
handleEventResults(event) ==
    IF ~event.Object.json THEN {<< >>}
    ELSE IF event.Type = "Added" THEN buildSecretResults(event.Object.secret, "create")
    ELSE IF event.Type = "Deleted" THEN buildSecretResults(event.Object.secret, "delete")
    ELSE {<< >>}

\* the selector newWatcher asks WatchSecrets for
WatchSelector(service) ==
    IF Len(service) > 0
    THEN {<<Concat(svcSelectorPrefix, serviceName(service)), svcSelectorValue>>}
    ELSE secretSelector

----------------------------------------------------------------------------
(* Watcher: the goroutines *)

Fwd == "fwd"
Callers == {"c1", "c2"}
Threads == Callers \cup {Fwd}

NoEvent == [Type |-> "none", Object |-> Garbage]

\* where the forwarding goroutine goes on once a send completed or none is left
AfterSend(rest) == IF rest = << >> THEN "range" ELSE "send"

\* for event := range watcher.ResultChan(): an event is received
FwdReceive ==
    /\ fault = "none"
    /\ pc[Fwd] = "range"
    /\ upQ # << >>
    /\ cur' = Head(upQ)
    /\ upQ' = Tail(upQ)
    /\ pc' = [pc EXCEPT ![Fwd] = "handle"]
    /\ UNCHANGED <<poolVars, san, lastRead, regVars, wservice, selector, upClosed, emitted, chanVars,
                   results, rd, stopCalls, stopReturned, handled>>

\* the range ends when ResultChan is closed and drained: k.Stop() is next
FwdRangeEnd ==
    /\ fault = "none"
    /\ pc[Fwd] = "range"
    /\ upQ = << >>
    /\ upClosed
    /\ pc' = [pc EXCEPT ![Fwd] = "stop_watcher"]
    /\ UNCHANGED <<poolVars, san, lastRead, regVars, wservice, selector, upQ, upClosed, emitted, chanVars,
                   cur, results, rd, stopCalls, stopReturned, handled>>

\* handleEvent up to its loop of sends
HandleEvent ==
    /\ fault = "none"
    /\ pc[Fwd] = "handle"
    /\ \E rs \in handleEventResults(cur) :
          /\ results' = rs
          /\ handled' = [event |-> cur, results |-> rs]
          /\ pc' = [pc EXCEPT ![Fwd] = AfterSend(rs)]
    /\ cur' = NoEvent
    /\ UNCHANGED <<poolVars, san, lastRead, regVars, wservice, selector, upQ, upClosed, emitted, chanVars,
                   rd, stopCalls, stopReturned>>

\* k.next <- result
FwdSend ==
    /\ fault = "none"
    /\ pc[Fwd] = "send"
    /\ IF chanClosed
       THEN /\ fault' = "send on closed channel"
            /\ UNCHANGED <<pc, results, rd, sent, delivered>>
       ELSE IF rd.pc = "recv"
       THEN \* a reader is waiting in Next(): it is handed the result
            /\ sent' = Append(sent, Head(results))
            /\ delivered' = Append(delivered, Head(results))
            /\ rd' = [rd EXCEPT !.pc = "idle", !.last = "event"]
            /\ results' = Tail(results)
            /\ pc' = [pc EXCEPT ![Fwd] = AfterSend(Tail(results))]
            /\ UNCHANGED fault
       ELSE \* nobody receives: the goroutine blocks in the send
            /\ pc' = [pc EXCEPT ![Fwd] = "parked"]
            /\ UNCHANGED <<fault, results, rd, sent, delivered>>
    /\ UNCHANGED <<poolVars, san, lastRead, regVars, wservice, selector, upQ, upClosed, emitted,
                   chanClosed, closes, cur, stopCalls, stopReturned, handled>>

\* a goroutine blocked in a send panics when the channel is closed
FwdSendWoken ==
    /\ fault = "none"
    /\ pc[Fwd] = "parked"
    /\ chanClosed
    /\ fault' = "send on closed channel"
    /\ UNCHANGED <<poolVars, san, lastRead, regVars, wservice, selector, upQ, upClosed, emitted,
                   chanClosed, closes, sent, delivered, pc, cur, results, rd,
                   stopCalls, stopReturned, handled>>

\* Next(): r, ok := <-k.next
Next_ ==
    /\ fault = "none"
    /\ rd.pc = "idle"
    /\ IF chanClosed
       THEN /\ rd' = [pc |-> "idle", afterStop |-> stopReturned, last |-> "closed"]
            /\ UNCHANGED <<pc, results, sent, delivered>>
       ELSE IF pc[Fwd] = "parked"
       THEN /\ sent' = Append(sent, Head(results))
            /\ delivered' = Append(delivered, Head(results))
            /\ rd' = [pc |-> "idle", afterStop |-> stopReturned, last |-> "event"]
            /\ results' = Tail(results)
            /\ pc' = [pc EXCEPT ![Fwd] = AfterSend(Tail(results))]
       ELSE /\ rd' = [pc |-> "recv", afterStop |-> stopReturned, last |-> rd.last]
            /\ UNCHANGED <<pc, results, sent, delivered>>
    /\ UNCHANGED <<poolVars, san, lastRead, regVars, wservice, selector, upQ, upClosed, emitted,
                   chanClosed, closes, fault, cur, stopCalls, stopReturned, handled>>

\* a Next() blocked in the receive returns the error when the channel is closed
NextWoken ==
    /\ fault = "none"
    /\ rd.pc = "recv"
    /\ chanClosed
    /\ rd' = [rd EXCEPT !.pc = "idle", !.last = "closed"]
    /\ UNCHANGED <<poolVars, san, lastRead, regVars, wservice, selector, upQ, upClosed, emitted, chanVars,
                   pc, cur, results, stopCalls, stopReturned, handled>>

----------------------------------------------------------------------------
(* Watcher: Stop() *)

\* where a thread is once its Stop() returned
Returned(t) == IF t = Fwd THEN "done" ELSE "idle"

\* a caller calls Stop()
StopCall(t) ==
    /\ fault = "none"
    /\ t \in Callers
    /\ pc[t] = "idle"
    /\ stopCalls < MaxStops
    /\ stopCalls' = stopCalls + 1
    /\ pc' = [pc EXCEPT ![t] = "stop_watcher"]
    /\ UNCHANGED <<poolVars, san, lastRead, regVars, wservice, selector, upQ, upClosed, emitted, chanVars,
                   cur, results, rd, stopReturned, handled>>

\* k.watcher.Stop(): the subscription is cancelled, what it still held is lost
StopWatcher(t) ==
    /\ fault = "none"
    /\ pc[t] = "stop_watcher"
    /\ upClosed' = TRUE
    /\ upQ' = << >>
    /\ pc' = [pc EXCEPT ![t] = "stop_select"]
    /\ UNCHANGED <<poolVars, san, lastRead, regVars, wservice, selector, emitted, chanVars,
                   cur, results, rd, stopCalls, stopReturned, handled>>

\* select { case <-k.next: return; default: close(k.next) }, up to the close
StopSelect(t) ==
    /\ fault = "none"
    /\ pc[t] = "stop_select"
    /\ IF chanClosed
       THEN \* the receive of a closed channel is ready
            /\ pc' = [pc EXCEPT ![t] = Returned(t)]
            /\ stopReturned' = TRUE
            /\ UNCHANGED <<results, sent>>
       ELSE IF pc[Fwd] = "parked"
       THEN \* the receive takes the result the forwarding goroutine is sending
            /\ sent' = Append(sent, Head(results))
            /\ results' = Tail(results)
            /\ pc' = [pc EXCEPT ![t] = Returned(t), ![Fwd] = AfterSend(Tail(results))]
            /\ stopReturned' = TRUE
       ELSE \* nothing to receive: the default case runs
            /\ pc' = [pc EXCEPT ![t] = "stop_close"]
            /\ UNCHANGED <<results, sent, stopReturned>>
    /\ UNCHANGED <<poolVars, san, lastRead, regVars, wservice, selector, upQ, upClosed, emitted,
                   chanClosed, closes, fault, delivered, cur, rd, stopCalls, handled>>

\* close(k.next)
StopClose(t) ==
    /\ fault = "none"
    /\ pc[t] = "stop_close"
    /\ closes' = closes + 1
    /\ IF chanClosed
       THEN /\ fault' = "close of closed channel"
            /\ UNCHANGED <<chanClosed, pc, stopReturned>>
       ELSE /\ chanClosed' = TRUE
            /\ pc' = [pc EXCEPT ![t] = Returned(t)]
            /\ stopReturned' = TRUE
            /\ UNCHANGED fault
    /\ UNCHANGED <<poolVars, san, lastRead, regVars, wservice, selector, upQ, upClosed, emitted,
                   sent, delivered, cur, results, rd, stopCalls, handled>>

----------------------------------------------------------------------------
(* The event source of a watch session *)

SvcA == [name |-> <<"a">>, nodes |-> <<<<"n">>>>]
SvcB == [name |-> <<"b", "_">>, nodes |-> <<<<"n">>, <<"m">>>>]

\* a secret of the store with the given annotations (nil Metadata if ~hasMeta)
AnnotatedSecret(hasMeta, annotations) ==
    [present |-> TRUE, name |-> "pod1", hasMeta |-> hasMeta,
     labels |-> {<<<<labelTypeKey>>, labelTypeValueService>>},
     annotations |-> annotations, data |-> {}]

WatchObjects ==
    { Garbage,
      ObjectOf(AnnotatedSecret(FALSE, {})),
      ObjectOf(AnnotatedSecret(TRUE,
          {<<Concat(dataServiceKeyPrefix, <<"a">>), JsonMarshal(SvcA)>>,
           <<Concat(dataServiceKeyPrefix, <<"b", "_">>), JsonMarshal(SvcB)>>})),
      ObjectOf(AnnotatedSecret(TRUE,
          {<<<<"note">>, JsonMarshal(SvcB)>>,
           <<Concat(dataServiceKeyPrefix, <<"n">>), Null>>,
           <<Concat(dataServiceKeyPrefix, <<"m">>), Malformed>>,
           <<Concat(dataServiceKeyPrefix, <<"a">>), JsonMarshal(SvcA)>>})) }

WatchEvents == [Type : {"Added", "Modified", "Deleted"}, Object : WatchObjects]

\* the subscription hands the forwarding goroutine its next notification
Notify ==
    /\ fault = "none"
    /\ ~upClosed
    /\ upQ = << >>
    /\ emitted < MaxEvents
    /\ \E e \in WatchEvents : upQ' = <<e>>
    /\ emitted' = emitted + 1
    /\ UNCHANGED <<poolVars, san, lastRead, regVars, wservice, selector, upClosed, chanVars, pc, cur,
                   results, rd, stopCalls, stopReturned, handled>>

\* the event source closes by itself, every notification having been taken
SourceClose ==
    /\ fault = "none"
    /\ ~upClosed
    /\ upQ = << >>
    /\ upClosed' = TRUE
    /\ UNCHANGED <<poolVars, san, lastRead, regVars, wservice, selector, upQ, emitted, chanVars, pc, cur,
                   results, rd, stopCalls, stopReturned, handled>>

----------------------------------------------------------------------------
(* Connection pool (client/grpc): a list of connections per address *)

MaxPoolSize == 2   \* largest capacity a pool is built with
MaxDials == 3      \* connections dialed in one run of the pool
MaxTime == 2       \* ticks of the clock in one run of the pool

ttl == 1           \* time.Minute, on a clock that counts minutes

Addrs == {"addr1", "addr2"}
PoolSizes == 0..MaxPoolSize
ReleaseErrs == {"nil", "rpc error"}

NoConn == [id |-> 0, addr |-> "none", created |-> 0]
NoRelease ==
    [addr |-> "none", conn |-> NoConn, err |-> "nil", before |-> 0,
     after |-> << >>, discarded |-> FALSE]

\* newPool(size, ttl)
newPool(sz) ==
    /\ size = sz
    /\ conns = [a \in Addrs |-> << >>]
    /\ held = {}
    /\ closed = {}
    /\ now = 0
    /\ dialed = 0
    /\ lastRelease = NoRelease

\* getConn's look at the list at time t: connections are taken from the end,
\* one older than ttl is discarded and the next one is looked at
RECURSIVE TakeConn(_, _)
TakeConn(list, t) ==
    IF list = << >> THEN [found |-> FALSE, rest |-> << >>, expired |-> {}]
    ELSE LET conn == list[Len(list)]
             rest == SubSeq(list, 1, Len(list) - 1)
         IN  IF t - conn.created > ttl
             THEN LET r == TakeConn(rest, t)
                  IN  [r EXCEPT !.expired = @ \cup {conn}]
             ELSE [found |-> TRUE, conn |-> conn, rest |-> rest, expired |-> {}]

\* getConn(addr): a retained connection that has not expired, else a new one
getConn(addr) ==
    LET r == TakeConn(conns[addr], now)
    IN  /\ conns' = [conns EXCEPT ![addr] = r.rest]
        /\ closed' = closed \cup r.expired
        /\ IF r.found
           THEN /\ held' = held \cup {r.conn}
                /\ UNCHANGED dialed
           ELSE /\ dialed < MaxDials
                /\ dialed' = dialed + 1
                /\ held' = held \cup {[id |-> dialed + 1, addr |-> addr,
                                       created |-> now]}
        /\ UNCHANGED <<size, now, lastRelease, san, lastRead, regVars, watchVars>>

\* (mutant) release puts the connection back whatever the length of the list
release_NoCap(addr, conn, err) ==
    /\ conn \in held
    /\ held' = held \ {conn}
    /\ IF err # "nil"
       THEN /\ closed' = closed \cup {conn}
            /\ UNCHANGED conns
       ELSE /\ conns' = [conns EXCEPT ![addr] = Append(@, conn)]
            /\ UNCHANGED closed
    /\ lastRelease' = [addr |-> addr, conn |-> conn, err |-> err,
                       before |-> Len(conns[addr]), after |-> conns'[addr],
                       discarded |-> conn \in closed']
    /\ UNCHANGED <<size, now, dialed, san, lastRead, regVars, watchVars>>

\* release(addr, conn, err): the connection goes back to the list of addr when
\* err is nil and the list holds fewer than size, else it is closed
release(addr, conn, err) ==
    /\ conn \in held
    /\ held' = held \ {conn}
    /\ IF err # "nil"
       THEN /\ closed' = closed \cup {conn}
            /\ UNCHANGED conns
       ELSE IF Len(conns[addr]) >= size
       THEN /\ closed' = closed \cup {conn}
            /\ UNCHANGED conns
       ELSE /\ conns' = [conns EXCEPT ![addr] = Append(@, conn)]
            /\ UNCHANGED closed
    /\ lastRelease' = [addr |-> addr, conn |-> conn, err |-> err,
                       before |-> Len(conns[addr]), after |-> conns'[addr],
                       discarded |-> conn \in closed']
    /\ UNCHANGED <<size, now, dialed, san, lastRead, regVars, watchVars>>

\* time passes
Tick ==
    /\ now < MaxTime
    /\ now' = now + 1
    /\ UNCHANGED <<size, conns, held, closed, dialed, lastRelease, san, lastRead,
                   regVars, watchVars>>

----------------------------------------------------------------------------
(* serviceName applied to a name, and to its own output *)

MaxNameLen == 3    \* longest name serviceName is applied to

\* bytes of a name: in the class of labelRe, outside it, and not valid UTF-8
NameBytes == {"a", ".", "_", "/", InvalidByte}

RECURSIVE StringsUpTo(_)
StringsUpTo(n) ==
    IF n = 0 THEN {<< >>}
    ELSE LET shorter == StringsUpTo(n - 1)
         IN  shorter \cup {Append(x, b) : x \in {y \in shorter : Len(y) = n - 1},
                                          b \in NameBytes}

NoSan == [phase |-> "name", name |-> << >>, once |-> << >>, twice |-> << >>]

\* aname := serviceName(name)
Sanitize ==
    /\ san.phase = "name"
    /\ san' = [san EXCEPT !.phase = "once", !.once = serviceName(san.name)]
    /\ UNCHANGED <<poolVars, lastRead, regVars, watchVars>>

\* serviceName(aname)
SanitizeAgain ==
    /\ san.phase = "once"
    /\ san' = [san EXCEPT !.phase = "twice", !.twice = serviceName(san.once)]
    /\ UNCHANGED <<poolVars, lastRead, regVars, watchVars>>

----------------------------------------------------------------------------
(* GetService and ListServices over a store other writers have written to *)

NoRead == [op |-> "none", name |-> << >>, err |-> "nil", svcs |-> << >>, names |-> {}]

\* a secret stored under podName with the type label of the registry
StoredSecret(podName, selectors, annotations, data) ==
    [present |-> TRUE,
     name |-> podName,
     hasMeta |-> TRUE,
     labels |-> {<<<<labelTypeKey>>, labelTypeValueService>>}
                \cup {<<Concat(svcSelectorPrefix, n), svcSelectorValue>> : n \in selectors},
     annotations |-> annotations,
     data |-> data]

\* what the store can hold under podName: nothing, a secret Register wrote, a
\* secret whose payload is not JSON, one without the payload entry, and secrets
\* that carry services as annotations, some undecodable or null
StoredSecrets(podName) ==
    {NoSecret,
     RegisterSecret(podName, SvcA),
     RegisterSecret(podName, SvcB),
     StoredSecret(podName, {<<"a">>}, {},
                  {<<Concat(dataServiceKeyPrefix, <<"a">>), Malformed>>}),
     StoredSecret(podName, {<<"a">>}, {}, {<<<<"note">>, JsonMarshal(SvcA)>>}),
     StoredSecret(podName, {}, {<<Concat(dataServiceKeyPrefix, <<"a">>), JsonMarshal(SvcA)>>}, {}),
     StoredSecret(podName, {},
                  {<<Concat(dataServiceKeyPrefix, <<"m">>), Malformed>>,
                   <<Concat(dataServiceKeyPrefix, <<"b", "_">>), JsonMarshal(SvcB)>>}, {}),
     StoredSecret(podName, {},
                  {<<Concat(dataServiceKeyPrefix, <<"n">>), Null>>,
                   <<Concat(dataServiceKeyPrefix, <<"a">>), JsonMarshal(SvcA)>>}, {})}

\* svcs, err := c.GetService(name)
CallGetService(name) ==
    /\ lastRead' = [op |-> "GetService", name |-> name,
               err |-> GetService(store, name).err,
               svcs |-> GetService(store, name).svcs, names |-> {}]
    /\ UNCHANGED <<poolVars, san, regVars, watchVars>>

\* svcs, err := c.ListServices()
CallListServices ==
    /\ lastRead' = [op |-> "ListServices", name |-> << >>,
               err |-> ListServices(store).err,
               svcs |-> << >>, names |-> ListServices(store).names]
    /\ UNCHANGED <<poolVars, san, regVars, watchVars>>

----------------------------------------------------------------------------
(* A watch session: newWatcher has returned, the goroutine is at its range *)

NoService == [present |-> FALSE]
Registered(s) == [present |-> TRUE, svc |-> s]

\* a call of Register or Deregister: who called, with what, what the instance
\* had registered before, and the error returned
Call(op, podName, s, prev, err) ==
    [op |-> op, inst |-> podName, svc |-> s, prev |-> prev, err |-> err]

NoOp == Call("none", "none", SvcA, NoService, "nil")

InitWatcher(service) ==
    /\ wservice = service
    /\ selector = WatchSelector(service)
    /\ upQ = << >>
    /\ upClosed = FALSE
    /\ emitted = 0
    /\ chanClosed = FALSE
    /\ closes = 0
    /\ pc = [t \in Threads |-> IF t = Fwd THEN "range" ELSE "idle"]
    /\ cur = NoEvent
    /\ results = << >>
    /\ rd = [pc |-> "idle", afterStop |-> FALSE, last |-> "none"]
    /\ fault = "none"
    /\ stopCalls = 0
    /\ stopReturned = FALSE
    /\ sent = << >>
    /\ delivered = << >>
    /\ handled = [event |-> NoEvent, results |-> << >>]

InitRegistry ==
    /\ store = [i \in Instances |-> NoSecret]
    /\ registered = [i \in Instances |-> NoService]
    /\ lastOp = NoOp
    /\ ops = 0

\* no pool in use, no name being sanitized, no read made
Idle ==
    /\ newPool(0)
    /\ san = NoSan
    /\ lastRead = NoRead

Init ==
    /\ InitRegistry
    /\ InitWatcher(<< >>)
    /\ Idle

Forwarder ==
    \/ FwdReceive
    \/ FwdRangeEnd
    \/ HandleEvent
    \/ FwdSend
    \/ FwdSendWoken

Stopping ==
    \E t \in Threads : StopWatcher(t) \/ StopSelect(t) \/ StopClose(t)

Next ==
    \/ Forwarder
    \/ Stopping
    \/ \E t \in Callers : StopCall(t)
    \/ Next_
    \/ NextWoken
    \/ Notify
    \/ SourceClose

Spec == Init /\ [][Next]_vars

\* the scheduler runs every goroutine that can take a step; nobody has to call
\* Next() or Stop(), and the event source need not emit or close
FairSpec ==
    /\ Spec
    /\ WF_vars(Forwarder)
    /\ WF_vars(Stopping)
    /\ WF_vars(NextWoken)

----------------------------------------------------------------------------
(* Registry operations against the store, with one watch open *)

\* (mutant) Register does not look at the number of nodes
Register_NoNodeCheck(podName, s) ==
    /\ ops < MaxOps
    /\ ops' = ops + 1
    /\ store' = CreateSecret(store, podName, RegisterSecret(podName, s))
    /\ upQ' = upQ \o StoreEvents(store[podName], store'[podName], selector)
    /\ registered' = [registered EXCEPT ![podName] = Registered(s)]
    /\ lastOp' = Call("Register", podName, s, registered[podName], "nil")
    /\ UNCHANGED <<poolVars, san, lastRead, wservice, selector, upClosed, emitted, chanVars,
                   pc, cur, results, rd, stopCalls, stopReturned, handled>>

\* Register(s) called in the process whose HOSTNAME is podName
Register(podName, s) ==
    /\ ops < MaxOps
    /\ ops' = ops + 1
    /\ IF Len(s.nodes) = 0
       THEN /\ lastOp' = Call("Register", podName, s, registered[podName],
                               "you must register at least one node")
            /\ UNCHANGED <<store, registered, upQ>>
       ELSE \/ \* CreateSecret: PUT secrets/<podName> stores the secret
               /\ store' = CreateSecret(store, podName, RegisterSecret(podName, s))
               /\ upQ' = upQ \o StoreEvents(store[podName], store'[podName], selector)
               /\ registered' = [registered EXCEPT ![podName] = Registered(s)]
               /\ lastOp' = Call("Register", podName, s, registered[podName], "nil")
            \/ \* the request fails: the error is returned as it is
               /\ lastOp' = Call("Register", podName, s, registered[podName],
                                  "store error")
               /\ UNCHANGED <<store, registered, upQ>>
    /\ UNCHANGED <<poolVars, san, lastRead, wservice, selector, upClosed, emitted, chanVars, pc, cur,
                   results, rd, stopCalls, stopReturned, handled>>

\* (mutant) Deregister deletes the secret only when it was registered for s
Deregister_OnlyOwnService(podName, s) ==
    /\ ops < MaxOps
    /\ ops' = ops + 1
    /\ IF Len(s.nodes) = 0
       THEN /\ lastOp' = Call("Deregister", podName, s, registered[podName],
                               "you must deregister at least one node")
            /\ UNCHANGED <<store, registered, upQ>>
       ELSE IF store[podName].present
       THEN IF registered[podName].svc.name = s.name
            THEN /\ store' = DeleteSecret(store, podName)
                 /\ upQ' = upQ \o StoreEvents(store[podName], store'[podName], selector)
                 /\ registered' = [registered EXCEPT ![podName] = NoService]
                 /\ lastOp' = Call("Deregister", podName, s, registered[podName], "nil")
            ELSE /\ lastOp' = Call("Deregister", podName, s, registered[podName], "nil")
                 /\ UNCHANGED <<store, registered, upQ>>
       ELSE /\ lastOp' = Call("Deregister", podName, s, registered[podName],
                               "store error")
            /\ UNCHANGED <<store, registered, upQ>>
    /\ UNCHANGED <<poolVars, san, lastRead, wservice, selector, upClosed, emitted,
                   chanVars, pc, cur, results, rd, stopCalls, stopReturned, handled>>

\* Deregister(s) called in the process whose HOSTNAME is podName
Deregister(podName, s) ==
    /\ ops < MaxOps
    /\ ops' = ops + 1
    /\ IF Len(s.nodes) = 0
       THEN /\ lastOp' = Call("Deregister", podName, s, registered[podName],
                               "you must deregister at least one node")
            /\ UNCHANGED <<store, registered, upQ>>
       ELSE IF store[podName].present
       THEN \* DeleteSecret: DELETE secrets/<podName>
            /\ store' = DeleteSecret(store, podName)
            /\ upQ' = upQ \o StoreEvents(store[podName], store'[podName], selector)
            /\ registered' = [registered EXCEPT ![podName] = NoService]
            /\ lastOp' = Call("Deregister", podName, s, registered[podName], "nil")
       ELSE \* no such secret: the store's error is returned as it is
            /\ lastOp' = Call("Deregister", podName, s, registered[podName],
                               "store error")
            /\ UNCHANGED <<store, registered, upQ>>
    /\ UNCHANGED <<poolVars, san, lastRead, wservice, selector, upClosed, emitted, chanVars, pc, cur,
                   results, rd, stopCalls, stopReturned, handled>>

\* Watch(opts...) was called with any service filter, or with none
RegInit ==
    /\ InitRegistry
    /\ \E service \in Names \cup {<< >>} : InitWatcher(service)
    /\ Idle

RegNext ==
    \/ \E podName \in Instances, s \in Services : Register(podName, s)
    \/ \E podName \in Instances, s \in Services : Deregister(podName, s)
    \/ FwdReceive
    \/ HandleEvent

RegSpec == RegInit /\ [][RegNext]_vars

----------------------------------------------------------------------------
(* The pool in use: any getConn and release calls, while time passes *)

PoolInit ==
    /\ \E sz \in PoolSizes : newPool(sz)
    /\ san = NoSan
    /\ lastRead = NoRead
    /\ InitRegistry
    /\ InitWatcher(<< >>)

PoolNext ==
    \/ \E addr \in Addrs : getConn(addr)
    \* a connection is released for the address it was got for
    \/ \E conn \in held, err \in ReleaseErrs : release(conn.addr, conn, err)
    \/ Tick

PoolSpec == PoolInit /\ [][PoolNext]_vars

----------------------------------------------------------------------------
(* serviceName on every name up to MaxNameLen bytes *)

SanInit ==
    /\ \E name \in StringsUpTo(MaxNameLen) : san = [NoSan EXCEPT !.name = name]
    /\ newPool(0)
    /\ lastRead = NoRead
    /\ InitRegistry
    /\ InitWatcher(<< >>)

SanNext ==
    \/ Sanitize
    \/ SanitizeAgain

SanSpec == SanInit /\ [][SanNext]_vars

----------------------------------------------------------------------------
(* Reads of a store holding any secrets *)

ReadInit ==
    /\ store \in {st \in [Instances -> UNION {StoredSecrets(i) : i \in Instances}] :
                     \A i \in Instances : st[i] \in StoredSecrets(i)}
    /\ registered = [i \in Instances |-> NoService]
    /\ lastOp = NoOp
    /\ ops = 0
    /\ InitWatcher(<< >>)
    /\ Idle

ReadNext ==
    \/ \E name \in Names : CallGetService(name)
    \/ CallListServices

ReadSpec == ReadInit /\ [][ReadNext]_vars

----------------------------------------------------------------------------
(* Claims on the watch session *)

\* C1: in every interleaving of the callers' Stop() calls and the forwarding
\* goroutine's own Stop(), close(k.next) is executed at most once.
C1_CloseAtMostOnce == closes <= 1

\* C2: a Next() call that starts after some Stop() has returned neither blocks
\* nor returns an event: it fails with the closed-channel error.
C2_NextAfterStopFails ==
    rd.afterStop => (rd.pc = "idle" /\ rd.last = "closed")

\* C3: the forwarding goroutine never sends on k.next once it is closed.
C3_NoSendOnClosed == fault # "send on closed channel"

\* C4: every result whose send on k.next completed was returned by a Next()
\* call, in the order of the sends: nothing else receives from k.next.
C4_NoEventDropped == delivered = sent

\* C5: once Stop() has been called or the event source has closed, the session
\* comes to have k.next closed, also when nobody calls Next(). Runs ended by a
\* panic (C1, C3) are set aside: they count as terminated here.
C5_SessionTerminates ==
    (stopCalls > 0 \/ upClosed) ~> (chanClosed \/ fault # "none")

----------------------------------------------------------------------------
(* Claims on the registry and its watch *)

Range(seq) == {seq[k] : k \in DOMAIN seq}

\* the notification Register(s) by instance i causes, and Deregister after it
RegisterEvent(i, s) == [Type |-> "Added", Object |-> ObjectOf(RegisterSecret(i, s))]
DeregisterEvent(i, s) == [Type |-> "Deleted", Object |-> ObjectOf(RegisterSecret(i, s))]

\* C6: with no service filter, handling the notification of a Register(s)
\* yields an event create carrying s for Next() to return, and the
\* notification of the Deregister an event delete carrying s.
C6_RegisterDeliversCreate ==
    \A i \in Instances, s \in Services :
        wservice = << >> =>
            /\ handled.event = RegisterEvent(i, s) =>
                  [Action |-> "create", Service |-> s] \in Range(handled.results)
            /\ handled.event = DeregisterEvent(i, s) =>
                  [Action |-> "delete", Service |-> s] \in Range(handled.results)

ValidUTF8(s) ==
    /\ \A k \in DOMAIN s.name : s.name[k] # InvalidByte
    /\ \A n \in DOMAIN s.nodes : \A k \in DOMAIN s.nodes[n] : s.nodes[n][k] # InvalidByte

\* GetService(s.name) succeeds and returns a record with the name and nodes of s
RoundTrips(s) ==
    LET got == GetService(store, s.name)
    IN  /\ got.err = "nil"
        /\ \E r \in Range(got.svcs) :
              r.name = s.name /\ Range(r.nodes) = Range(s.nodes)

\* C8 (as stated): after a successful Register(s), of any s with a node,
\* GetService(s.name) returns a record equivalent to s.
C8_RoundTripAnyService ==
    (lastOp.op = "Register" /\ lastOp.err = "nil") => RoundTrips(lastOp.svc)

\* C8 (amended): the same for every s whose strings are valid UTF-8.
C8_RoundTripValidUTF8 ==
    (lastOp.op = "Register" /\ lastOp.err = "nil" /\ ValidUTF8(lastOp.svc))
        => RoundTrips(lastOp.svc)

\* a service of two nodes whose name needs sanitizing has been registered and
\* read back
C8_Witness ==
    /\ lastOp.op = "Register" /\ lastOp.err = "nil"
    /\ lastOp.svc.name = <<"b", "/">>
    /\ Len(lastOp.svc.nodes) = 2
    /\ RoundTrips(lastOp.svc)

\* the names of the services registered now
RegisteredNames == {registered[i].svc.name : i \in {j \in Instances : registered[j].present}}

\* C9: ListServices returns exactly the distinct names of the services
\* registered now.
C9_ListServicesExactNames ==
    /\ ListServices(store).err = "nil"
    /\ ListServices(store).names = RegisteredNames

\* C10 (as stated): GetService(name) fails with ErrNotFound whenever no
\* record of the store was registered for name.
C10_NotFoundWhenNotRegistered ==
    \A name \in Names :
        name \notin RegisteredNames => GetService(store, name).err = "ErrNotFound"

\* C10 (amended): ... whenever no record of the store was registered for a
\* name that sanitizes to the same token as name.
C10_NotFoundWhenNoSameToken ==
    \A name \in Names :
        (\A other \in RegisteredNames : serviceName(other) # serviceName(name))
            => GetService(store, name).err = "ErrNotFound"

\* an instance has registered s and then deregistered it, nobody else has a
\* record, and GetService(s.name) fails with ErrNotFound
C10_Witness ==
    /\ lastOp.op = "Deregister" /\ lastOp.err = "nil"
    /\ lastOp.prev = Registered(lastOp.svc)
    /\ RegisteredNames = {}
    /\ GetService(store, lastOp.svc.name).err = "ErrNotFound"

----------------------------------------------------------------------------
(* Claims on Register and Deregister *)

\* C11: a Register or a Deregister of a service with no node returns the
\* zero-node error of that operation and makes no call to the store: every
\* record stays as it was and no watch notification is produced.
C11_ZeroNodeCallLeavesStore ==
    [][(ops' # ops /\ Len(lastOp'.svc.nodes) = 0) =>
          /\ lastOp'.err = (IF lastOp'.op = "Register"
                            THEN "you must register at least one node"
                            ELSE "you must deregister at least one node")
          /\ store' = store
          /\ upQ' = upQ]_vars

\* an instance that holds a record has called Register with a service of no
\* node: the call failed and the record is still the one it had
C11_Witness ==
    /\ lastOp.op = "Register"
    /\ Len(lastOp.svc.nodes) = 0
    /\ lastOp.err = "you must register at least one node"
    /\ lastOp.prev.present
    /\ lastOp.prev.svc.name # lastOp.svc.name
    /\ store[lastOp.inst] = RegisterSecret(lastOp.inst, lastOp.prev.svc)

\* C14: a successful Register leaves under the instance id of its caller the
\* record of the service just registered, in place of the one that was there,
\* and touches no other record: the listing of the store never holds two
\* records of one instance id, and grows by one only when the caller had none.
C14_RegisterReplacesByInstance ==
    [][(ops' # ops /\ lastOp'.op = "Register" /\ lastOp'.err = "nil") =>
          LET i == lastOp'.inst
              before == ListSecrets(store, secretSelector)
              after == ListSecrets(store', secretSelector)
          IN  /\ store'[i] = RegisterSecret(i, lastOp'.svc)
              /\ \A j \in Instances \ {i} : store'[j] = store[j]
              /\ \A a, b \in 1..Len(after) : after[a].name = after[b].name => a = b
              /\ Len(after) = Len(before) + (IF store[i].present THEN 0 ELSE 1)]_vars

\* an instance registered for one name has registered a service of another
\* name and token: its record is the new one and the old name is not found
C14_Witness ==
    /\ lastOp.op = "Register" /\ lastOp.err = "nil"
    /\ lastOp.prev.present
    /\ serviceName(lastOp.prev.svc.name) # serviceName(lastOp.svc.name)
    /\ store[lastOp.inst] = RegisterSecret(lastOp.inst, lastOp.svc)
    /\ Len(ListSecrets(store, secretSelector)) = 1
    /\ GetService(store, lastOp.prev.svc.name).err = "ErrNotFound"

\* C19 (as stated): every record GetService(x) returns carries the name x.
C19_OnlyRequestedName ==
    \A x \in Names :
        \A r \in Range(GetService(store, x).svcs) : r.name = x

\* C19 (amended): every record GetService(x) returns is the decoded payload of
\* a service registered under a name that sanitizes to the same token as x.
C19_OnlySameTokenRecords ==
    \A x \in Names :
        \A r \in Range(GetService(store, x).svcs) :
            \E i \in Instances :
                /\ registered[i].present
                /\ serviceName(registered[i].svc.name) = serviceName(x)
                /\ r = JsonUnmarshal(JsonMarshal(registered[i].svc)).svc

\* two instances have registered two names of one token, a third name is
\* not registered: GetService of either name returns both records
C19_Witness ==
    \E x, y \in Names :
        /\ x # y
        /\ x \in RegisteredNames /\ y \in RegisteredNames
        /\ Len(GetService(store, x).svcs) = 2
        /\ \E r \in Range(GetService(store, x).svcs) : r.name = y

----------------------------------------------------------------------------
(* Claims on the connection pool *)

\* C12: a pool of any capacity, 0 included, never retains more connections of
\* an address than its capacity; a released connection is put back on the list
\* of its address exactly when err is nil and the list held fewer than the
\* capacity, and is closed otherwise.
C12_PoolNeverExceedsSize ==
    /\ \A a \in Addrs : Len(conns[a]) <= size
    /\ lastRelease.addr # "none" =>
          LET kept == /\ Len(lastRelease.after) = lastRelease.before + 1
                      /\ lastRelease.after[Len(lastRelease.after)] = lastRelease.conn
          IN  /\ kept <=> (lastRelease.err = "nil" /\ lastRelease.before < size)
              /\ ~kept => /\ lastRelease.discarded
                          /\ Len(lastRelease.after) = lastRelease.before

\* a pool of capacity 2 holds 2 connections of an address and has closed a
\* third that was released to it without error
C12_Witness ==
    /\ size = 2
    /\ lastRelease.addr # "none"
    /\ Len(conns[lastRelease.addr]) = 2
    /\ lastRelease.err = "nil"
    /\ lastRelease.before = 2
    /\ lastRelease.discarded

----------------------------------------------------------------------------
(* Claims on serviceName *)

\* C13: serviceName returns, for every name, a string of the same length whose
\* bytes are all in the class of labelRe, with the bytes of the name that are
\* in the class left as they are; applied to its own output it changes nothing.
C13_ServiceNameTotalIdempotent ==
    /\ san.phase # "name" =>
          /\ Len(san.once) = Len(san.name)
          /\ \A k \in 1..Len(san.name) :
                /\ san.once[k] \in labelRe
                /\ san.name[k] \in labelRe => san.once[k] = san.name[k]
    /\ san.phase = "twice" => san.twice = san.once

\* a name of the full length, that starts with a byte outside the class and
\* holds an invalid byte and a byte of the class, has been sanitized twice
C13_Witness ==
    /\ san.phase = "twice"
    /\ Len(san.name) = MaxNameLen
    /\ san.name[1] = "/"
    /\ \E k \in 1..Len(san.name) : san.name[k] = InvalidByte
    /\ \E k \in 1..Len(san.name) : san.name[k] = "a"
    /\ san.once # san.name

----------------------------------------------------------------------------
(* Claims on the decoding of notifications *)

\* C15: an Added notification yields only "create" results and a Deleted one
\* only "delete" results; a notification of any other type yields none; no
\* result waiting, sent or returned by Next() is an "update".
C15_TypeDecidesAction ==
    /\ handled.event.Type = "Added" =>
          \A r \in Range(handled.results) : r.Action = "create"
    /\ handled.event.Type = "Deleted" =>
          \A r \in Range(handled.results) : r.Action = "delete"
    /\ handled.event.Type \notin {"Added", "Deleted"} => handled.results = << >>
    /\ \A r \in Range(results) \cup Range(sent) \cup Range(delivered) :
          r.Action \in {"create", "delete"}

\* a create has been returned by Next() and a Modified notification of a secret
\* with two decodable services has been handled into no result
C15_Witness ==
    /\ handled.event.Type = "Modified"
    /\ handled.event.Object.json
    /\ Cardinality({e \in handled.event.Object.secret.annotations :
                       HasPrefix(e[1], dataServiceKeyPrefix)
                       /\ e[2] # Null /\ JsonUnmarshal(e[2]).ok}) = 2
    /\ handled.results = << >>
    /\ \E r \in Range(delivered) : r.Action = "create"

\* the annotations of secret that carry the service prefix, are not null and
\* decode
DecodableEntries(secret) ==
    {e \in secret.annotations :
        /\ HasPrefix(e[1], dataServiceKeyPrefix)
        /\ e[2] # Null
        /\ JsonUnmarshal(e[2]).ok}

\* C16: the results of an Added or Deleted notification are exactly one per
\* annotation that carries the service prefix, is not null and decodes, in some
\* order; the other annotations are skipped and suppress none of these.
C16_OneResultPerDecodableEntry ==
    (handled.event.Type \in {"Added", "Deleted"} /\ handled.event.Object.json) =>
        LET action == IF handled.event.Type = "Added" THEN "create" ELSE "delete"
        IN  \E seq \in Orderings(DecodableEntries(handled.event.Object.secret)) :
                handled.results =
                    [k \in 1..Len(seq) |->
                        [Action |-> action, Service |-> JsonUnmarshal(seq[k][2]).svc]]

\* a Deleted notification of a secret with a null, an undecodable, an
\* unprefixed and a decodable annotation has been handled into one result
C16_Witness ==
    /\ handled.event.Type = "Deleted"
    /\ handled.event.Object.json
    /\ \E e \in handled.event.Object.secret.annotations : e[2] = Null
    /\ \E e \in handled.event.Object.secret.annotations : e[2] = Malformed
    /\ \E e \in handled.event.Object.secret.annotations :
          ~HasPrefix(e[1], dataServiceKeyPrefix)
    /\ Len(handled.results) = 1
    /\ handled.results[1].Action = "delete"

----------------------------------------------------------------------------
(* Claims on the reads *)

\* the instances whose secret GetService(name) is handed by the store
MatchedBy(name) ==
    {i \in Instances :
        /\ store[i].present
        /\ <<Concat(svcSelectorPrefix, serviceName(name)), svcSelectorValue>>
              \in store[i].labels}

\* those of them whose secret carries the payload entry of name
CarryingEntry(name) ==
    {i \in MatchedBy(name) :
        MapHas(store[i].data, Concat(dataServiceKeyPrefix, serviceName(name)))}

PayloadOf(i, name) ==
    JsonUnmarshal(MapGet(store[i].data, Concat(dataServiceKeyPrefix, serviceName(name))))

\* C17: GetService fails as a whole, with an error and no record, when the
\* payload entry of any matched secret does not decode; when it succeeds it
\* returns one record per matched secret that carries the entry, each the
\* decoded payload of one secret, none merged.
C17_GetServiceStrict ==
    lastRead.op = "GetService" =>
        LET carrying == CarryingEntry(lastRead.name)
        IN  /\ (\E i \in carrying : ~PayloadOf(i, lastRead.name).ok) =>
                  (lastRead.err \notin {"nil", "ErrNotFound"} /\ lastRead.svcs = << >>)
            /\ lastRead.err # "nil" => lastRead.svcs = << >>
            /\ lastRead.err = "nil" =>
                  /\ Len(lastRead.svcs) = Cardinality(carrying)
                  /\ \A i \in carrying :
                        PayloadOf(i, lastRead.name).svc \in Range(lastRead.svcs)
                  /\ \A r \in Range(lastRead.svcs) :
                        \E i \in carrying : r = PayloadOf(i, lastRead.name).svc

\* GetService has failed on a store where one matched secret decodes and
\* another does not
C17_Witness ==
    /\ lastRead.op = "GetService"
    /\ lastRead.err = "could not unmarshal service"
    /\ lastRead.svcs = << >>
    /\ \E i, j \in CarryingEntry(lastRead.name) :
          PayloadOf(i, lastRead.name).ok /\ ~PayloadOf(j, lastRead.name).ok

\* the annotations of the secrets of the registry that carry the service prefix
PrefixedAnnotations ==
    LET listed == {i \in Instances :
                      /\ store[i].present
                      /\ <<<<labelTypeKey>>, labelTypeValueService>> \in store[i].labels}
    IN  {e \in UNION {store[i].annotations : i \in listed} :
            HasPrefix(e[1], dataServiceKeyPrefix)}

\* C18: where a prefixed entry of the store does not decode, ListServices
\* still succeeds and returns the names of the entries that decode, each once.
C18_ListServicesLenient ==
    (lastRead.op = "ListServices" /\ \E e \in PrefixedAnnotations : e[2] = Malformed) =>
        /\ lastRead.err = "nil"
        /\ lastRead.names =
              {JsonUnmarshal(e[2]).svc.name :
                  e \in {d \in PrefixedAnnotations : d[2] # Null /\ JsonUnmarshal(d[2]).ok}}

====
